---------------------------- MODULE Spec2Model ----------------------------
(***************************************************************************)
(* A model of the CatchAI backend (backend/app): PDF ingestion into a      *)
(* per-corpus Chroma index, balanced retrieval and grounded answering.     *)
(*                                                                         *)
(* Four specifications share the module's variables:                       *)
(*   SpecRetrieve  retrieve_context_balanced as a function of the           *)
(*                 candidate list the similarity search returned           *)
(*   SpecBuild     build_chunks_from_pdf as a function of a document        *)
(*   SpecStore     upsert_texts called directly with arbitrary lists        *)
(*   Spec          the HTTP handlers ingest / ask / reset, interleaved      *)
(***************************************************************************)
EXTENDS Integers, Sequences, FiniteSets, TLC

VARIABLES
    \* ---- SpecRetrieve: qa.py retrieve_context_balanced
    cands,        \* the candidates built from the retriever's documents
    k,            \* parameter k
    per_doc,      \* parameter per_doc
    retrieved,    \* the returned list (dedup[:k]); meaningful when r_pc = "done"
    r_pc,         \* "call" before the function ran, "done" after
    \* ---- SpecBuild: ingestion.py build_chunks_from_pdf
    pdf,          \* file_bytes, as what pypdf makes of them
    filename,     \* parameter filename
    doc_hash,     \* parameter doc_hash
    texts,        \* the returned texts
    metas,        \* the returned metadata records
    b_pc,         \* "call", then "returned" or "raised"
    b_pages,      \* the local pages: what extract_pages returned
    \* ---- SpecNormalize: ingestion.py _normalize_whitespace
    n_text,       \* the argument text, a sequence of characters
    n_out,        \* what the first call returned
    n_twice,      \* what the call on n_out returned
    n_pc,         \* "call", "once" after the first call, "twice" after the second
    \* ---- the corpus directories under CHROMA_BASE_DIR (SpecStore, Spec)
    disk,         \* corpus id -> [exists, recs]: the directory and its index
    \* ---- SpecStore: store.py upsert_texts
    u_call,       \* the call's arguments [cid, texts, metas]
    u_embedded,   \* texts handed to the embedding provider by the call
    u_pc,         \* "call", then "returned" or "raised"
    \* ---- Spec: main.py handlers
    req,          \* request slot -> the request it runs and how far it got
    used,         \* the ids uuid4 has returned
    known,        \* the corpus ids an ingest response gave to a client
    reset_ok      \* history: the uuid4 ids whose reset returned status ok

rvars == <<cands, k, per_doc, retrieved, r_pc>>
bvars == <<pdf, filename, doc_hash, texts, metas, b_pc, b_pages>>
uvars == <<u_call, u_embedded, u_pc>>
nvars == <<n_text, n_out, n_twice, n_pc>>
svars == <<req, used, known, reset_ok>>

vars == <<cands, k, per_doc, retrieved, r_pc,
          pdf, filename, doc_hash, texts, metas, b_pc, b_pages,
          n_text, n_out, n_twice, n_pc,
          disk, u_call, u_embedded, u_pc,
          req, used, known, reset_ok>>

-----------------------------------------------------------------------------
(* Bounds of the model *)

MaxCands == 4
MaxK == 4
MaxPerDoc == 2
MaxPages == 3
MaxCorpora == 2
MaxUpsert == 2
MaxFiles == 2
NumProcs == 2
MaxText == 5

-----------------------------------------------------------------------------
(* Generic helpers *)

Min(a, b) == IF a <= b THEN a ELSE b
Max(a, b) == IF a >= b THEN a ELSE b

Range(s) == {s[i] : i \in 1..Len(s)}

SeqsUpTo(S, n) == UNION {[1..m -> S] : m \in 0..n}

\* Python's s[:n], for any integer n
PySlice(s, n) ==
    IF n >= 0 THEN SubSeq(s, 1, Min(n, Len(s)))
    ELSE SubSeq(s, 1, Max(0, Len(s) + n))

RECURSIVE Flatten(_)
Flatten(ss) == IF ss = <<>> THEN <<>> ELSE Head(ss) \o Flatten(Tail(ss))

\* The variables of a specification that is not the one running
RIdle ==
    /\ cands = <<>> /\ k = 0 /\ per_doc = 0 /\ retrieved = <<>> /\ r_pc = "idle"

BIdle ==
    /\ pdf = [valid |-> TRUE, enc |-> "none", pages |-> <<>>]
    /\ filename = "a.pdf" /\ doc_hash = "h1"
    /\ texts = <<>> /\ metas = <<>> /\ b_pc = "idle" /\ b_pages = <<>>

NIdle ==
    /\ n_text = <<>> /\ n_out = <<>> /\ n_twice = <<>> /\ n_pc = "idle"

\* Corpus ids: the values uuid4 can return, one id that no uuid4 call returns
\* (a client's guess) and the empty string
Uuids == 1..MaxCorpora
GhostCid == MaxCorpora + 1
EmptyCid == MaxCorpora + 2
Cids == Uuids \cup {GhostCid}

NoDir == [exists |-> FALSE, recs |-> <<>>]
EmptyDir == [exists |-> TRUE, recs |-> <<>>]

DiskIdle == disk = [c \in Cids |-> NoDir]

UIdle ==
    /\ u_call = [cid |-> GhostCid, texts |-> <<>>, metas |-> <<>>]
    /\ u_embedded = 0 /\ u_pc = "idle"

Procs == 1..NumProcs

\* A request slot.  kind and pc say which handler runs and where it is; cid
\* is its corpus id; handle is what the Chroma handle read when it was opened;
\* existed is what os.path.exists answered; exc is the exception raised inside
\* reset's try; ctx, answer, llm_calls and status are the response and the
\* LLM calls made for it.  Two history fields: after_delete (the ask began
\* after a reset of its corpus returned ok, or on an id never created) and
\* stale (the search was served from what the handle read at opening, which
\* the directory no longer holds).
IdleReq ==
    [kind |-> "idle", pc |-> "idle", cid |-> GhostCid,
     handle |-> <<>>, after_delete |-> FALSE, stale |-> FALSE,
     existed |-> FALSE, exc |-> "", ctx |-> <<>>, answer |-> "",
     llm_calls |-> 0, status |-> ""]

SIdle ==
    /\ req = [p \in Procs |-> IdleReq]
    /\ used = {} /\ known = {} /\ reset_ok = {}

-----------------------------------------------------------------------------
(* ingestion.py: _normalize_whitespace *)

\* A text is a sequence of characters: carriage return, newline, space, tab
\* and two ordinary characters.
Chars == {"\r", "\n", " ", "\t", "a", "b"}
Texts == SeqsUpTo(Chars, MaxText)

\* the characters of t at the positions in keep, in their order
Kept(t, keep) ==
    LET idx == SelectSeq([i \in 1..Len(t) |-> i], LAMBDA i : i \in keep)
    IN  [n \in 1..Len(idx) |-> t[idx[n]]]

\* text.replace("\r", "\n"): every carriage return becomes a newline
ReplaceCR(t) == [i \in 1..Len(t) |-> IF t[i] = "\r" THEN "\n" ELSE t[i]]

\* re.sub(r"[ \t]+", " ", text): each run of spaces and tabs becomes one space
CollapseBlanks(t) ==
    LET blank(i) == t[i] \in {" ", "\t"}
        first == Kept([i \in 1..Len(t) |-> IF blank(i) THEN " " ELSE t[i]],
                      {i \in 1..Len(t) : ~blank(i) \/ i = 1 \/ ~blank(i - 1)})
    IN  first

\* re.sub(r"\n{3,}", "\n\n", text): a run of three or more newlines keeps two
CollapseNewlines(t) ==
    Kept(t, {i \in 1..Len(t) :
                ~(i >= 3 /\ t[i] = "\n" /\ t[i-1] = "\n" /\ t[i-2] = "\n")})

\* str.strip(): whitespace is dropped from both ends
Whitespace == {"\r", "\n", " ", "\t"}
RECURSIVE LStrip(_)
LStrip(t) == IF t # <<>> /\ Head(t) \in Whitespace THEN LStrip(Tail(t)) ELSE t
RECURSIVE RStrip(_)
RStrip(t) ==
    IF t # <<>> /\ t[Len(t)] \in Whitespace
    THEN RStrip(SubSeq(t, 1, Len(t) - 1))
    ELSE t
Strip(t) == RStrip(LStrip(t))

\* A normalization that turns carriage returns into newlines only after the
\* newline runs were collapsed
normalize_whitespaceLateCR(t) ==
    Strip(ReplaceCR(CollapseNewlines(CollapseBlanks(t))))

\* _normalize_whitespace: the four steps in the order of the code
normalize_whitespace(t) ==
    Strip(CollapseNewlines(CollapseBlanks(ReplaceCR(t))))

NInit ==
    /\ RIdle /\ BIdle /\ DiskIdle /\ UIdle /\ SIdle
    /\ n_text \in Texts
    /\ n_out = <<>>
    /\ n_twice = <<>>
    /\ n_pc = "call"

\* The call on the text
NormalizeText ==
    /\ n_pc = "call"
    /\ n_out' = normalize_whitespace(n_text)
    /\ n_pc' = "once"
    /\ UNCHANGED <<n_text, n_twice>>
    /\ UNCHANGED <<rvars, bvars, disk, uvars, svars>>

\* The call on what the first call returned
NormalizeAgain ==
    /\ n_pc = "once"
    /\ n_twice' = normalize_whitespace(n_out)
    /\ n_pc' = "twice"
    /\ UNCHANGED <<n_text, n_out>>
    /\ UNCHANGED <<rvars, bvars, disk, uvars, svars>>

NNext == NormalizeText \/ NormalizeAgain

SpecNormalize == NInit /\ [][NNext]_vars

-----------------------------------------------------------------------------
(* ingestion.py: extract_pages, chunk_page_text, build_chunks_from_pdf *)

\* The normalized texts a page can carry.  The empty one is a page without
\* extractable text (or whose text is only whitespace).
PageTexts == {"", "Alpha Beta", "Gamma Delta Epsilon"}

\* What pypdf makes of one page: extract_text() raises, or it yields a text
\* (None counts as ""); text stands for the text after _normalize_whitespace.
RawPages == [raises : BOOLEAN, text : PageTexts]

\* How the document is protected: not encrypted; encrypted so that the empty
\* password opens it; encrypted under a password that "" does not match
Encryptions == {"none", "empty", "locked"}

\* What pypdf makes of the bytes: PdfReader raises on bytes that are no PDF.
Pdfs(n) == [valid : BOOLEAN, enc : Encryptions, pages : SeqsUpTo(RawPages, n)]

\* extract_pages raises where its code stands outside every try: PdfReader
\* rejects the bytes, or the document is still encrypted when reader.pages
\* is enumerated -- decrypt("") did not open it, its failure was swallowed,
\* and pypdf refuses the objects of a document that is not decrypted
\* (FileNotDecryptedError).
extract_pages_raises(file) == ~file.valid \/ file.enc = "locked"

\* extract_pages where it returns: one (page number, text) entry per page,
\* "" where the page's extraction raised
extract_pages(file) ==
    [i \in 1..Len(file.pages) |->
        <<i, IF file.pages[i].raises THEN "" ELSE file.pages[i].text>>]

\* chunk_page_text at chunk_size 800, overlap 120: the splitter returns no
\* chunk for "", the whole text when it fits, overlapping pieces otherwise.
chunk_page_text(text) ==
    CASE text = "" -> <<>>
      [] text = "Alpha Beta" -> <<"Alpha Beta">>
      [] text = "Gamma Delta Epsilon" -> <<"Gamma Delta", "Delta Epsilon">>

\* Python's None in the page field (page numbers start at 1)
PageNone == 0

\* doc_id = doc_hash[:12]
DocId(h) == <<"prefix12", h>>

PageMetasResetCounter(fname, h, page_num, chunks, first_id) ==
    [j \in 1..Len(chunks) |->
        [source |-> fname, doc_hash |-> h, doc_id |-> DocId(h),
         page |-> page_num, pages |-> ToString(page_num),
         chunk_id |-> j - 1]]

\* the metadata records of one page's chunks; first_id is local_chunk_id
\* as the page's inner loop starts
PageMetas(fname, h, page_num, chunks, first_id) ==
    [j \in 1..Len(chunks) |->
        [source |-> fname, doc_hash |-> h, doc_id |-> DocId(h),
         page |-> page_num, pages |-> ToString(page_num),
         chunk_id |-> first_id + j - 1]]

\* the loop over pages, from page index i on; acc is [texts, metas]
RECURSIVE BuildLoop(_, _, _, _, _)
BuildLoop(pages, i, fname, h, acc) ==
    IF i > Len(pages) THEN acc
    ELSE LET page_num == pages[i][1]
             page_text == pages[i][2]
         IN  IF page_text = ""
             THEN BuildLoop(pages, i + 1, fname, h, acc)
             ELSE LET chunks == chunk_page_text(page_text)
                  IN  BuildLoop(pages, i + 1, fname, h,
                        [texts |-> acc.texts \o chunks,
                         metas |-> acc.metas \o
                            PageMetas(fname, h, page_num, chunks, Len(acc.metas))])

Placeholder(fname, h) ==
    [source |-> fname, doc_hash |-> h, doc_id |-> DocId(h),
     page |-> PageNone, pages |-> "", chunk_id |-> 0]

WithPlaceholderAlways(fname, h, acc) ==
    [texts |-> acc.texts \o <<"">>, metas |-> acc.metas \o <<Placeholder(fname, h)>>]

\* "if not texts": one empty entry for a document without extractable text
WithPlaceholder(fname, h, acc) ==
    IF acc.texts = <<>>
    THEN [texts |-> <<"">>, metas |-> <<Placeholder(fname, h)>>]
    ELSE acc

\* build_chunks_from_pdf of a file pypdf can read
build_chunks_from_pdf(file, fname, h) ==
    WithPlaceholder(fname, h,
        BuildLoop(extract_pages(file), 1, fname, h, [texts |-> <<>>, metas |-> <<>>]))

FileNames == {"a.pdf", "b.pdf"}
Digests == {"h1", "h2"}

BInit ==
    /\ RIdle /\ NIdle /\ DiskIdle /\ UIdle /\ SIdle
    /\ pdf \in Pdfs(MaxPages)
    /\ filename \in FileNames
    /\ doc_hash \in Digests
    /\ texts = <<>>
    /\ metas = <<>>
    /\ b_pc = "call"
    /\ b_pages = <<>>

\* One call on a document whose pages extract_pages returns
BuildReturns ==
    /\ b_pc = "call"
    /\ ~extract_pages_raises(pdf)
    /\ b_pages' = extract_pages(pdf)
    /\ LET out == build_chunks_from_pdf(pdf, filename, doc_hash)
       IN  texts' = out.texts /\ metas' = out.metas
    /\ b_pc' = "returned"
    /\ UNCHANGED <<pdf, filename, doc_hash>>
    /\ UNCHANGED <<rvars, nvars, disk, uvars, svars>>

\* One call on which extract_pages raises: the exception leaves the function
BuildRaises ==
    /\ b_pc = "call"
    /\ extract_pages_raises(pdf)
    /\ b_pc' = "raised"
    /\ UNCHANGED <<pdf, filename, doc_hash, texts, metas, b_pages>>
    /\ UNCHANGED <<rvars, nvars, disk, uvars, svars>>

BNext == BuildReturns \/ BuildRaises

SpecBuild == BInit /\ [][BNext]_vars

-----------------------------------------------------------------------------
(* store.py: create_corpus, upsert_texts, get_db *)

\* What Chroma.from_texts puts in place of a metadata dict it was not given
NoMeta ==
    [source |-> "", doc_hash |-> "", doc_id |-> <<>>,
     page |-> PageNone, pages |-> "", chunk_id |-> 0]

\* upsert_texts on the directory `index`: the lists go to Chroma.from_texts
\* as they are.  from_texts opens the directory (creating it), embeds every
\* text, and only then looks at metadatas: a shorter list is padded with
\* empty dicts, an empty one is ignored, a longer one runs past the texts and
\* raises; then it writes and persists.
upsert_texts(index, txts, mts) ==
    LET opened == [index EXCEPT !.exists = TRUE]
        padded == [i \in 1..Len(txts) |-> IF i <= Len(mts) THEN mts[i] ELSE NoMeta]
    IN  IF Len(mts) > Len(txts)
        THEN [raised |-> TRUE, embedded |-> Len(txts), index |-> opened]
        ELSE [raised |-> FALSE, embedded |-> Len(txts),
              index |-> [opened EXCEPT !.recs = @ \o
                    [i \in 1..Len(txts) |-> [text |-> txts[i], meta |-> padded[i]]]]]

\* The chunks and metadata records a caller can pass
SomeTexts == {"Alpha Beta", ""}
SomeMetas == {Placeholder("b.pdf", "h2"),
              PageMetas("a.pdf", "h1", 1, <<"Alpha Beta">>, 0)[1]}

UInit ==
    /\ RIdle /\ BIdle /\ NIdle /\ DiskIdle /\ SIdle
    /\ u_call \in [cid : Uuids, texts : SeqsUpTo(SomeTexts, MaxUpsert),
                   metas : SeqsUpTo(SomeMetas, MaxUpsert)]
    /\ u_embedded = 0
    /\ u_pc = "call"

\* One call of upsert_texts with the arguments of u_call
UpsertCall ==
    /\ u_pc = "call"
    /\ LET out == upsert_texts(disk[u_call.cid], u_call.texts, u_call.metas)
       IN  /\ disk' = [disk EXCEPT ![u_call.cid] = out.index]
           /\ u_embedded' = out.embedded
           /\ u_pc' = IF out.raised THEN "raised" ELSE "returned"
    /\ UNCHANGED <<u_call, rvars, nvars, bvars, svars>>

UNext == UpsertCall

SpecStore == UInit /\ [][UNext]_vars

-----------------------------------------------------------------------------
(* qa.py: retrieve_context_balanced *)

\* The documents a corpus can hold: (source, doc_hash) pairs.  Two share the
\* file name and two share the digest, so the pair is what tells them apart.
DocIdents == { <<"a.pdf", "h1">>, <<"a.pdf", "h2">>, <<"b.pdf", "h1">> }

\* A candidate dict (qa.py 42-49).  text, pages and page are functions of the
\* stored chunk and take no part in grouping or deduplication.
ChunkIds == {0, 1}

Candidates ==
    { [source |-> d[1], doc_hash |-> d[2], chunk_id |-> c] :
        d \in DocIdents, c \in ChunkIds }

DocKey(c) == <<c.source, c.doc_hash>>
ChunkKey(c) == <<c.source, c.doc_hash, c.chunk_id>>

\* by_doc's keys in insertion order (a dict keeps first-insertion order)
RECURSIVE KeysInOrder(_, _)
KeysInOrder(cs, seen) ==
    IF cs = <<>> THEN <<>>
    ELSE IF DocKey(Head(cs)) \in seen THEN KeysInOrder(Tail(cs), seen)
    ELSE <<DocKey(Head(cs))>> \o KeysInOrder(Tail(cs), seen \cup {DocKey(Head(cs))})

\* by_doc[key]: the candidates of one document, in the order they arrived
ByDoc(cs, key) == SelectSeq(cs, LAMBDA c : DocKey(c) = key)

BalancedPlain(cs, pd) == PySlice(cs, pd)

\* balanced: items[:per_doc] of every group, groups in dict order
Balanced(cs, pd) ==
    LET keys == KeysInOrder(cs, {})
    IN  Flatten([i \in 1..Len(keys) |-> PySlice(ByDoc(cs, keys[i]), pd)])

TakenIds(cs, pd) == {ChunkKey(c) : c \in Range(Balanced(cs, pd))}

\* rest: the candidates whose tuple is not in taken_ids, in their order
Rest(cs, pd) == SelectSeq(cs, LAMBDA c : ChunkKey(c) \notin TakenIds(cs, pd))

FinalTopK(cs, kk, pd) == PySlice(cs, kk)

\* final = balanced[:k], extended by rest[:(k - len(final))] when short
Final(cs, kk, pd) ==
    LET final == PySlice(Balanced(cs, pd), kk)
    IN  IF Len(final) < kk
        THEN final \o PySlice(Rest(cs, pd), kk - Len(final))
        ELSE final

DedupNone(s, seen) == s

\* the final loop: keep the first entry of every tuple
RECURSIVE Dedup(_, _)
Dedup(s, seen) ==
    IF s = <<>> THEN <<>>
    ELSE IF ChunkKey(Head(s)) \in seen THEN Dedup(Tail(s), seen)
    ELSE <<Head(s)>> \o Dedup(Tail(s), seen \cup {ChunkKey(Head(s))})

retrieve_context_balanced(cs, kk, pd) ==
    PySlice(Dedup(Final(cs, kk, pd), {}), kk)

RInit ==
    /\ BIdle /\ NIdle /\ DiskIdle /\ UIdle /\ SIdle
    /\ cands \in SeqsUpTo(Candidates, MaxCands)
    /\ k = 0
    /\ per_doc = 0
    /\ retrieved = <<>>
    /\ r_pc = "call"

\* One call of the function, for any k and per_doc
Retrieve ==
    /\ r_pc = "call"
    /\ \E kk \in 0..MaxK, pd \in 0..MaxPerDoc :
        /\ k' = kk
        /\ per_doc' = pd
        /\ retrieved' = retrieve_context_balanced(cands, kk, pd)
    /\ r_pc' = "done"
    /\ UNCHANGED cands
    /\ UNCHANGED <<bvars, nvars, disk, uvars, svars>>

RNext == Retrieve

SpecRetrieve == RInit /\ [][RNext]_vars

-----------------------------------------------------------------------------
(* config.py, qa.py answer, main.py ingest / ask / reset_corpus *)

\* MOCK_MODE: the demo switch, at its default
MOCK_MODE == FALSE

\* k and per_doc as answer passes them (the defaults), and the retriever's
\* k = max(k, 12)
DefaultK == 8
DefaultPerDoc == 1
MinSearchK == 12

NoInfoMsg == "No encuentro informacion relevante en los documentos cargados."
DemoMsg == "Modo demo: respuesta simulada."
DemoCtx == <<[text |-> "Fragmento simulado", source |-> "demo.pdf", pages |-> "1-2",
              page |-> PageNone, chunk_id |-> 0, doc_hash |-> ""]>>

\* The uploads a client can send
PdfA == [valid |-> TRUE, enc |-> "none",
         pages |-> <<[raises |-> FALSE, text |-> ""],
                     [raises |-> FALSE, text |-> "Alpha Beta"]>>]
PdfB == [valid |-> TRUE, enc |-> "empty",
         pages |-> <<[raises |-> FALSE, text |-> ""]>>]
NotPdf == [valid |-> FALSE, enc |-> "none", pages |-> <<>>]

Uploads ==
    { [filename |-> "a.pdf", content_type |-> "application/pdf", raw |-> PdfA],
      [filename |-> "b.pdf", content_type |-> "application/x-pdf", raw |-> PdfB],
      [filename |-> "notes.txt", content_type |-> "text/plain", raw |-> NotPdf] }

\* hashlib.sha256(raw).hexdigest(): one digest per content
Sha256(raw) ==
    CASE raw = PdfA -> "h1"
      [] raw = PdfB -> "h2"
      [] OTHER -> "h3"

IsPdfType(ct) == ct \in {"application/pdf", "application/x-pdf"}

\* corpus_dir(cid): the directories the path covers.  os.path.join(base, "")
\* is the base directory itself, which holds every corpus.
Covered(cid) == IF cid = EmptyCid THEN Cids ELSE {cid}
PathExists(cid) == \E c \in Covered(cid) : disk[c].exists

\* the candidate dict made of a stored document (qa.py 42-49)
Cand(rec) ==
    [text |-> rec.text, source |-> rec.meta.source, pages |-> rec.meta.pages,
     page |-> rec.meta.page, chunk_id |-> rec.meta.chunk_id,
     doc_hash |-> rec.meta.doc_hash]

\* What the MMR search can return on the records recs: any max(k, 12) of
\* them, in any order (the ranking is the embedding model's)
SearchResults(recs, kk) ==
    LET n == Len(recs)
        perms == {f \in [1..n -> 1..n] : \A a, b \in 1..n : f[a] = f[b] => a = b}
    IN  { PySlice([i \in 1..n |-> Cand(recs[f[i]])], Max(kk, MinSearchK)) : f \in perms }

AnswerAlwaysAsks(ctx) ==
    IF MOCK_MODE
    THEN [answer |-> DemoMsg, ctx |-> DemoCtx, llm_calls |-> 0]
    ELSE [answer |-> "llm", ctx |-> ctx, llm_calls |-> 1]

\* answer, from the retrieved context on: the fixed message without the LLM
\* when it is empty, one llm.invoke otherwise
Answer(ctx) ==
    IF MOCK_MODE
    THEN [answer |-> DemoMsg, ctx |-> DemoCtx, llm_calls |-> 0]
    ELSE IF ctx = <<>>
         THEN [answer |-> NoInfoMsg, ctx |-> <<>>, llm_calls |-> 0]
         ELSE [answer |-> "llm", ctx |-> ctx, llm_calls |-> 1]

RmtreeKeeps(dir) == dir

\* shutil.rmtree of a corpus directory, when it succeeds
Rmtree(dir) == NoDir

ResetResponseUncaught(exc) == IF exc = "" THEN "ok" ELSE "raised"

\* reset_corpus's try/except: any exception becomes the error payload
ResetResponse(exc) == IF exc = "" THEN "ok" ELSE "error"

\* The request record once the response is out: the handler's locals are gone
Done(r, status) ==
    [IdleReq EXCEPT !.kind = r.kind, !.pc = "done", !.cid = r.cid, !.status = status]

SInit ==
    /\ RIdle /\ BIdle /\ NIdle /\ DiskIdle /\ UIdle
    /\ req = [p \in Procs |-> IdleReq]
    /\ used = {}
    /\ known = {}
    /\ reset_ok = {}

\* The corpus ids a client can name: those it was given, a guess and ""
ClientCids == known \cup {GhostCid, EmptyCid}

\* A create_corpus whose uuid4 may return an id it returned before
create_corpusRepeats(usedIds) == Uuids

\* store.py create_corpus: the ids str(uuid.uuid4()) can return, given those
\* it has returned so far -- a version-4 UUID is taken as never repeating.
\* The caller then makes the directory with os.makedirs(exist_ok=True),
\* which leaves a directory that is already there as it is.
create_corpus(usedIds) == Uuids \ usedIds

\* POST /ingest, up to create_corpus: 400 on an empty list, else a new
\* directory under a new uuid4.  The list itself is read by the loop.
IngestBegin(p) ==
    /\ req[p].pc \in {"idle", "done"}
    /\ \E empty \in BOOLEAN :
        IF empty
        THEN /\ req' = [req EXCEPT ![p] = [IdleReq EXCEPT
                    !.kind = "ingest", !.pc = "done", !.status = "400"]]
             /\ UNCHANGED <<disk, used>>
        ELSE \E cid \in create_corpus(used) :
             /\ used' = used \cup {cid}
             /\ disk' = [disk EXCEPT ![cid].exists = TRUE]
             /\ req' = [req EXCEPT ![p] = [IdleReq EXCEPT
                    !.kind = "ingest", !.pc = "files", !.cid = cid]]
    /\ UNCHANGED <<known, reset_ok, rvars, nvars, bvars, uvars>>

\* The loop over files, from file number i on, acc being [texts, metas]:
\* 400 on a file that is no PDF, else read, digest, build_chunks_from_pdf
\* (500 when pypdf rejects the bytes), extend
RECURSIVE IngestLoop(_, _, _)
IngestLoop(fs, i, acc) ==
    IF i > Len(fs) THEN [status |-> "200", texts |-> acc.texts, metas |-> acc.metas]
    ELSE LET uf == fs[i]
             digest == Sha256(uf.raw)
         IN  IF ~IsPdfType(uf.content_type)
             THEN [status |-> "400", texts |-> acc.texts, metas |-> acc.metas]
             ELSE IF extract_pages_raises(uf.raw)
             THEN [status |-> "500", texts |-> acc.texts, metas |-> acc.metas]
             ELSE LET out == build_chunks_from_pdf(uf.raw, uf.filename, digest)
                  IN  IngestLoop(fs, i + 1,
                        [texts |-> acc.texts \o out.texts,
                         metas |-> acc.metas \o out.metas])

\* The rest of ingest, which touches nothing but the request's own corpus:
\* the loop over the uploaded files, upsert_texts, then the response, which
\* gives the corpus id to the client.  (manifest.json is written beside the
\* index, best effort; the model's directory holds the index only.)
IngestFiles(p) ==
    /\ req[p].kind = "ingest" /\ req[p].pc = "files"
    /\ \E fs \in SeqsUpTo(Uploads, MaxFiles) \ {<<>>} :
        LET loop == IngestLoop(fs, 1, [texts |-> <<>>, metas |-> <<>>])
            out == upsert_texts(disk[req[p].cid], loop.texts, loop.metas)
        IN  IF loop.status # "200"
            THEN /\ req' = [req EXCEPT ![p] = Done(req[p], loop.status)]
                 /\ UNCHANGED <<disk, known>>
            ELSE IF out.raised
            THEN /\ disk' = [disk EXCEPT ![req[p].cid] = out.index]
                 /\ req' = [req EXCEPT ![p] = Done(req[p], "500")]
                 /\ UNCHANGED known
            ELSE /\ disk' = [disk EXCEPT ![req[p].cid] = out.index]
                 /\ req' = [req EXCEPT ![p] = Done(req[p], "200")]
                 /\ known' = known \cup {req[p].cid}
    /\ UNCHANGED <<used, reset_ok, rvars, nvars, bvars, uvars>>

\* POST /ask up to get_db: 400 on an empty corpus_id; the demo answer in
\* MOCK_MODE; else Chroma opens the directory (creating it when missing)
AskBegin(p) ==
    /\ req[p].pc \in {"idle", "done"}
    /\ \E cid \in ClientCids :
        IF cid = EmptyCid
        THEN /\ req' = [req EXCEPT ![p] = [IdleReq EXCEPT
                    !.kind = "ask", !.pc = "done", !.cid = cid, !.status = "400"]]
             /\ UNCHANGED disk
        ELSE IF MOCK_MODE
        THEN /\ req' = [req EXCEPT ![p] = [IdleReq EXCEPT
                    !.kind = "ask", !.pc = "done", !.cid = cid, !.status = "200",
                    !.answer = Answer(<<>>).answer, !.ctx = Answer(<<>>).ctx]]
             /\ UNCHANGED disk
        ELSE /\ req' = [req EXCEPT ![p] = [IdleReq EXCEPT
                    !.kind = "ask", !.pc = "search", !.cid = cid,
                    !.handle = disk[cid].recs,
                    !.after_delete = (cid \in reset_ok \/ cid \notin used)]]
             /\ disk' = [disk EXCEPT ![cid].exists = TRUE]
    /\ UNCHANGED <<used, known, reset_ok, rvars, nvars, bvars, uvars>>

\* The rest of answer: the search through the opened handle (which may still
\* serve what it read at opening, or read the directory as it is now), the
\* balanced selection, the LLM call, the response
AskSearch(p) ==
    /\ req[p].kind = "ask" /\ req[p].pc = "search"
    /\ \E seen \in {req[p].handle, disk[req[p].cid].recs} :
       \E docs \in SearchResults(seen, DefaultK) :
        LET ctx == retrieve_context_balanced(docs, DefaultK, DefaultPerDoc)
            out == Answer(ctx)
        IN  req' = [req EXCEPT ![p] = [Done(req[p], "200") EXCEPT
                        !.after_delete = req[p].after_delete,
                        !.stale = (seen # disk[req[p].cid].recs),
                        !.ctx = out.ctx, !.answer = out.answer,
                        !.llm_calls = out.llm_calls]]
    /\ UNCHANGED <<disk, used, known, reset_ok, rvars, nvars, bvars, uvars>>

\* POST /reset up to os.path.exists: ok at once when the path is missing
ResetBegin(p) ==
    /\ req[p].pc \in {"idle", "done"}
    /\ \E cid \in ClientCids :
        IF PathExists(cid)
        THEN /\ req' = [req EXCEPT ![p] = [IdleReq EXCEPT
                    !.kind = "reset", !.pc = "rmtree", !.cid = cid, !.existed = TRUE]]
             /\ UNCHANGED reset_ok
        ELSE /\ req' = [req EXCEPT ![p] = [IdleReq EXCEPT
                    !.kind = "reset", !.pc = "done", !.cid = cid,
                    !.status = ResetResponse("")]]
             /\ reset_ok' = IF ResetResponse("") = "ok"
                            THEN reset_ok \cup ({cid} \cap Uuids) ELSE reset_ok
    /\ UNCHANGED <<disk, used, known, rvars, nvars, bvars, uvars>>

\* shutil.rmtree and the response.  The path may be gone by now (another
\* reset removed it): FileNotFoundError.  The removal may fail (OSError),
\* leaving the directories as they were or without their records.
ResetRmtree(p) ==
    /\ req[p].kind = "reset" /\ req[p].pc = "rmtree"
    /\ LET cid == req[p].cid
           respond(exc) ==
                /\ req' = [req EXCEPT ![p] = [Done(req[p], ResetResponse(exc)) EXCEPT
                                !.existed = TRUE, !.exc = exc]]
                /\ reset_ok' = IF ResetResponse(exc) = "ok"
                               THEN reset_ok \cup ({cid} \cap Uuids) ELSE reset_ok
       IN  IF ~PathExists(cid)
           THEN respond("FileNotFoundError") /\ UNCHANGED disk
           ELSE \E outcome \in {"removed", "failed", "failed-partly"} :
                CASE outcome = "removed" ->
                        /\ disk' = [c \in Cids |->
                                IF c \in Covered(cid) THEN Rmtree(disk[c]) ELSE disk[c]]
                        /\ respond("")
                  [] outcome = "failed" ->
                        /\ UNCHANGED disk
                        /\ respond("OSError")
                  [] outcome = "failed-partly" ->
                        /\ disk' = [c \in Cids |->
                                IF c \in Covered(cid) /\ disk[c].exists
                                THEN EmptyDir ELSE disk[c]]
                        /\ respond("OSError")
    /\ UNCHANGED <<used, known, rvars, nvars, bvars, uvars>>

Next ==
    \E p \in Procs :
        \/ IngestBegin(p)
        \/ IngestFiles(p)
        \/ AskBegin(p)
        \/ AskSearch(p)
        \/ ResetBegin(p)
        \/ ResetRmtree(p)

Spec == SInit /\ [][Next]_vars

-----------------------------------------------------------------------------
(* Claims on retrieve_context_balanced *)

NoDup(s) == \A i, j \in 1..Len(s) : ChunkKey(s[i]) = ChunkKey(s[j]) => i = j

DocsOf(s) == {DocKey(s[i]) : i \in 1..Len(s)}

DistinctTuples(s) == Cardinality({ChunkKey(s[i]) : i \in 1..Len(s)})

\* C1: the result holds no two entries with the same (source, doc_hash,
\* chunk_id) tuple and has at most k entries, whatever the candidate list
\* (duplicates included), k >= 0 and per_doc >= 0.
C1_NoDuplicatesAtMostK ==
    r_pc = "done" => NoDup(retrieved) /\ Len(retrieved) <= k

\* the search returned the same chunk twice and both copies reached final
C1_Witness ==
    /\ r_pc = "done"
    /\ ~NoDup(Final(cands, k, per_doc))
    /\ Len(retrieved) >= 1

\* C2: candidates from at least two documents, per_doc >= 1 and
\* k >= 2*per_doc give a result with candidates from at least two documents.
C2_TwoDocuments ==
    (r_pc = "done" /\ Cardinality(DocsOf(cands)) >= 2
        /\ per_doc >= 1 /\ k >= 2 * per_doc)
    => Cardinality(DocsOf(retrieved)) >= 2

\* the second document's first chunk was outranked by k chunks of the first
C2_Witness ==
    /\ r_pc = "done"
    /\ Cardinality(DocsOf(cands)) >= 2
    /\ per_doc >= 1 /\ k >= 2 * per_doc
    /\ Cardinality(DocsOf(PySlice(cands, k))) = 1
    /\ Cardinality(DocsOf(retrieved)) >= 2

\* C3 (as claimed): the result has exactly min(k, D) entries, D the number of
\* distinct tuples among the candidates.
C3_ExactlyMinKD ==
    r_pc = "done" => Len(retrieved) = Min(k, DistinctTuples(cands))

\* ---- C4: positions in the similarity search's output
FirstPos(c) == CHOOSE i \in 1..Len(cands) :
    cands[i] = c /\ \A j \in 1..(i - 1) : cands[j] # c

\* the rank of position i within its own document group
GroupRank(i) == Cardinality({j \in 1..i : DocKey(cands[j]) = DocKey(cands[i])})

\* a candidate the balanced round chooses: among the top per_doc of its group
InBalancedRound(c) ==
    \E i \in 1..Len(cands) : cands[i] = c /\ GroupRank(i) <= per_doc

\* where the candidate's document group first appears
GroupFirstPos(c) == CHOOSE i \in 1..Len(cands) :
    DocKey(cands[i]) = DocKey(c) /\ \A j \in 1..(i - 1) : DocKey(cands[j]) # DocKey(c)

\* C4: the result is ordered balanced-first, backfill second: every entry the
\* balanced round chose precedes every backfilled entry; balanced entries come
\* group by group in order of the groups' first appearance and in relevance
\* order within a group; backfilled entries keep the search's relative order.
C4_BalancedFirstThenBackfill ==
    r_pc = "done" =>
        \A i, j \in 1..Len(retrieved) : i < j =>
            LET a == retrieved[i]
                b == retrieved[j]
            IN  /\ a \in Range(cands) /\ b \in Range(cands)
                /\ InBalancedRound(b) => InBalancedRound(a)
                /\ (InBalancedRound(a) /\ InBalancedRound(b)) =>
                        \/ GroupFirstPos(a) < GroupFirstPos(b)
                        \/ DocKey(a) = DocKey(b) /\ FirstPos(a) < FirstPos(b)
                /\ (~InBalancedRound(a) /\ ~InBalancedRound(b)) =>
                        FirstPos(a) < FirstPos(b)

\* a balanced entry was moved ahead of a more relevant backfilled one, and two
\* backfilled entries follow it
C4_Witness ==
    /\ r_pc = "done"
    /\ \E i, j, l \in 1..Len(retrieved) :
        /\ i < j /\ j < l
        /\ InBalancedRound(retrieved[i])
        /\ ~InBalancedRound(retrieved[j]) /\ ~InBalancedRound(retrieved[l])
        /\ FirstPos(retrieved[j]) < FirstPos(retrieved[i])

\* C3, without repeated tuples among the candidates (not a claim; a reading aid)
C3_Aid_NoRepeats ==
    (r_pc = "done" /\ NoDup(cands)) => Len(retrieved) = Min(k, DistinctTuples(cands))

-----------------------------------------------------------------------------
(* Claims on build_chunks_from_pdf *)

\* the text extract_pages records for page p of the document
PageTextOf(p) == extract_pages(pdf)[p][2]

\* the chunks of all pages, in page order
AllChunks == Flatten([p \in 1..Len(pdf.pages) |-> chunk_page_text(PageTextOf(p))])

\* the texts returned for page p, in their order
TextsOfPage(p) ==
    LET idx == SelectSeq([i \in 1..Len(metas) |-> i], LAMBDA i : metas[i].page = p)
    IN  [n \in 1..Len(idx) |-> texts[idx[n]]]

\* C6: the i-th record carries chunk_id i (0-based), so the chunk_id values
\* are exactly 0..M-1; the counter runs on across pages; records come in
\* ascending page order and, within a page, in split order; a page with empty
\* text contributes no record.
C6_ChunkIdsDense ==
    b_pc = "returned" =>
        /\ Len(texts) = Len(metas)
        /\ \A i \in 1..Len(metas) : metas[i].chunk_id = i - 1
        /\ \A i, j \in 1..Len(metas) : i < j => metas[i].page <= metas[j].page
        /\ \A p \in 1..Len(pdf.pages) : TextsOfPage(p) = chunk_page_text(PageTextOf(p))
        /\ \A p \in 1..Len(pdf.pages) :
            PageTextOf(p) = "" => \A i \in 1..Len(metas) : metas[i].page # p

\* a two-chunk page, then an empty page, then a page whose chunk gets id 2
C6_Witness ==
    /\ b_pc = "returned"
    /\ Len(pdf.pages) = 3
    /\ PageTextOf(1) = "Gamma Delta Epsilon"
    /\ PageTextOf(2) = ""
    /\ PageTextOf(3) = "Alpha Beta"
    /\ Len(metas) = 3
    /\ metas[3].page = 3 /\ metas[3].chunk_id = 2

IsPlaceholder(i) ==
    /\ texts[i] = ""
    /\ metas[i].page = PageNone
    /\ metas[i].pages = ""
    /\ metas[i].chunk_id = 0

\* C7: the placeholder record (empty text, page None, pages "", chunk_id 0) is
\* emitted if and only if the document's pages produce no chunk at all; it is
\* then the only record, and the call returns instead of raising.
C7_PlaceholderIffNoChunks ==
    /\ (b_pc # "call" /\ ~extract_pages_raises(pdf)) => b_pc = "returned"
    /\ b_pc = "returned" =>
        /\ (\E i \in 1..Len(metas) : IsPlaceholder(i)) <=> (AllChunks = <<>>)
        /\ AllChunks = <<>> => (Len(texts) = 1 /\ Len(metas) = 1 /\ IsPlaceholder(1))
        /\ AllChunks # <<>> => texts = AllChunks

\* a document with pages, none of which has text: one placeholder record
C7_Witness ==
    /\ b_pc = "returned"
    /\ Len(pdf.pages) >= 2
    /\ AllChunks = <<>>
    /\ Len(metas) = 1 /\ IsPlaceholder(1)

\* what C12 asks of a finished call: one entry per page of the document,
\* numbered 1..N in order, "" for a page whose extraction raised or gave no
\* text
OneEntryPerPage ==
    /\ b_pc = "returned"
    /\ Len(b_pages) = Len(pdf.pages)
    /\ \A i \in 1..Len(b_pages) : b_pages[i][1] = i
    /\ \A i \in 1..Len(b_pages) :
        (pdf.pages[i].raises \/ pdf.pages[i].text = "") => b_pages[i][2] = ""

\* C12 (as claimed): for a PDF with N pages, encrypted or not, with or
\* without pages whose text extraction fails, extract_pages returns N entries
\* numbered 1..N in order, a failing or textless page being recorded with the
\* empty string; it does not raise.
C12_OneEntryPerPage ==
    (b_pc # "call" /\ pdf.valid) => OneEntryPerPage

\* C12 holds of the documents that are not encrypted or that the empty
\* password opens.
C12_Aid_Decrypted ==
    (b_pc # "call" /\ pdf.valid /\ pdf.enc # "locked") => OneEntryPerPage

\* a three-page document the empty password opens, its second page failing
C12_Aid_Witness ==
    /\ b_pc = "returned" /\ pdf.enc = "empty"
    /\ Len(pdf.pages) = 3 /\ pdf.pages[2].raises
    /\ b_pages[2] = <<2, "">> /\ b_pages[3][2] # ""

-----------------------------------------------------------------------------
(* Claims on _normalize_whitespace *)

\* the text with each line end written as a single newline: "\r\n" is one
\* line end, as is a carriage return or a newline alone
LineEndsAsLF(t) ==
    ReplaceCR(Kept(t, {i \in 1..Len(t) :
                         ~(t[i] = "\r" /\ i < Len(t) /\ t[i+1] = "\n")}))

\* C13 (as claimed): two texts that differ only in the variant ("\n", "\r\n"
\* or "\r") written at each line end normalize to the same output -- each
\* text normalizes to what its single-newline writing normalizes to -- and
\* "a\r\nb" normalizes to "a\nb".
C13_LineEndingsUnified ==
    n_pc # "call" =>
        /\ n_out = normalize_whitespace(LineEndsAsLF(n_text))
        /\ n_text = <<"a", "\r", "\n", "b">> => n_out = <<"a", "\n", "b">>

\* C13 holds of the texts that do not write a line end as "\r\n".
C13_Aid_NoCRLF ==
    (n_pc # "call" /\ LineEndsAsLF(n_text) = ReplaceCR(n_text)) =>
        n_out = normalize_whitespace(LineEndsAsLF(n_text))

\* C14: normalization is idempotent: normalizing the normalized text gives
\* the normalized text again, for every text over carriage returns,
\* newlines, spaces, tabs and ordinary characters.
C14_Idempotent ==
    n_pc = "twice" => n_twice = n_out

\* a text the first call changed at a carriage return and in a blank run,
\* and also trimmed, normalized twice
C14_Witness ==
    /\ n_pc = "twice"
    /\ n_text = <<" ", "a", "\r", "\t", " ">>
    /\ n_out = <<"a">>
    /\ n_twice = <<"a">>

-----------------------------------------------------------------------------
(* Claims on upsert_texts *)

\* C8 (as claimed): a call with len(texts) # len(metadatas) is rejected
\* before any text is embedded and before anything is written to the index.
C8_MismatchRejectedFirst ==
    (u_pc # "call" /\ Len(u_call.texts) # Len(u_call.metas)) =>
        /\ u_pc = "raised"
        /\ u_embedded = 0
        /\ disk[u_call.cid].recs = <<>>

-----------------------------------------------------------------------------
(* Claims on the handlers *)

AskDone(p) == req[p].kind = "ask" /\ req[p].pc = "done" /\ req[p].status = "200"
ResetDone(p) == req[p].kind = "reset" /\ req[p].pc = "done"

\* C5: an ask whose retrieval yields no candidate returns the fixed
\* no-information message with an empty list and makes no LLM call; an ask
\* whose retrieval yields candidates makes exactly one.
C5_NoCandidatesNoLlm ==
    \A p \in Procs : AskDone(p) =>
        /\ req[p].ctx = <<>> =>
                (req[p].answer = NoInfoMsg /\ req[p].llm_calls = 0)
        /\ req[p].ctx # <<>> => req[p].llm_calls = 1

\* one ask answered from an empty index, another from indexed chunks
C5_Witness ==
    \E p, q \in Procs :
        /\ AskDone(p) /\ req[p].ctx = <<>> /\ req[p].answer = NoInfoMsg
        /\ disk[req[p].cid] = EmptyDir
        /\ AskDone(q) /\ req[q].ctx # <<>> /\ req[q].llm_calls = 1

\* C9: reset never raises: its response is the ok or the error payload; on a
\* path that does not exist it is ok and the directories are left as they
\* were; an exception during the removal gives the error payload.
C9_ResetNeverRaises ==
    /\ [](\A p \in Procs : ResetDone(p) =>
            /\ req[p].status \in {"ok", "error"}
            /\ ~req[p].existed => req[p].status = "ok"
            /\ req[p].exc # "" => req[p].status = "error")
    /\ [][\A p \in Procs :
            (req'[p] # req[p] /\ req'[p].kind = "reset" /\ req'[p].pc = "done"
                /\ ~req'[p].existed)
            => disk' = disk]_vars

\* a reset of a corpus that an earlier reset already removed returned ok,
\* and a reset whose removal failed returned the error payload
C9_Witness ==
    \E p, q \in Procs :
        /\ ResetDone(p) /\ ~req[p].existed /\ req[p].status = "ok"
        /\ req[p].cid \in reset_ok
        /\ ResetDone(q) /\ req[q].exc = "OSError" /\ req[q].status = "error"

\* C10: a query that begins after a reset of its corpus id returned ok, or on
\* a corpus id that was never created, sees an index without vectors and
\* returns no candidates with status 200; so a query that returns chunks of a
\* removed corpus opened the index before the removal.
C10_QueryAfterResetSeesEmpty ==
    \A p \in Procs :
        /\ (req[p].kind = "ask" /\ req[p].pc = "search" /\ req[p].after_delete) =>
                (req[p].handle = <<>> /\ disk[req[p].cid].recs = <<>>)
        /\ (req[p].kind = "ask" /\ req[p].pc = "done" /\ req[p].cid # EmptyCid
                /\ req[p].after_delete) =>
                (req[p].status = "200" /\ req[p].ctx = <<>>
                    /\ req[p].answer = NoInfoMsg)
        /\ (req[p].kind = "ask" /\ req[p].pc = "done" /\ req[p].stale) =>
                ~req[p].after_delete

\* a query begun after the reset found nothing, while one that had opened the
\* index before it returned the removed corpus's chunks
C10_Witness ==
    \E p, q \in Procs :
        /\ AskDone(p) /\ req[p].after_delete /\ req[p].cid \in reset_ok
        /\ req[p].ctx = <<>>
        /\ AskDone(q) /\ req[q].cid = req[p].cid /\ req[q].ctx # <<>>
        /\ req[q].stale

\* ---------------------------------------------------------------------------
\* C11: every ingest request, concurrent ones included, creates a corpus
\* whose id differs from every id created before or at the same time (no
\* earlier call got it, no directory carries it, no other request holds it),
\* and every step of an ingest request leaves the directory and the indexed
\* records of every corpus other than its own unchanged.
C11_IngestFreshAndFramed ==
    [][\A p \in Procs :
         (req'[p] # req[p] /\ req'[p].kind = "ingest") =>
            /\ req'[p].pc = "files" =>
                  /\ req'[p].cid \in Uuids \ used
                  /\ ~disk[req'[p].cid].exists
                  /\ \A q \in Procs \ {p} : req[q].cid # req'[p].cid
            /\ \A c \in Cids :
                  (c # req'[p].cid \/ req'[p].cid \notin Uuids)
                      => disk'[c] = disk[c]]_vars

\* Two ingest requests hold different corpora, and one of them has indexed
\* its records while the other's directory stands beside it
C11_Witness ==
    \E p, q \in Procs :
        /\ p # q
        /\ req[p].kind = "ingest" /\ req[p].pc = "done" /\ req[p].status = "200"
        /\ disk[req[p].cid].recs # <<>>
        /\ req[q].kind = "ingest" /\ req[q].cid \in Uuids
        /\ req[q].cid # req[p].cid
        /\ disk[req[q].cid].exists

\* ---------------------------------------------------------------------------
\* the records a corpus holds, as the candidates the retriever makes of them
StoredCands(c) == [i \in 1..Len(disk[c].recs) |-> Cand(disk[c].recs[i])]

\* C15 (as claimed): within one corpus no two indexed records carry the same
\* (source, doc_hash, chunk_id), whatever the ingest requests were -- one
\* that uploads the same file twice included; so the retriever's
\* deduplication by that tuple, run over the stored records, discards none.
C15_TupleIdentifiesOneRecord ==
    \A c \in Cids :
        /\ NoDup(StoredCands(c))
        /\ Len(Dedup(StoredCands(c), {})) = Len(disk[c].recs)

\* ---------------------------------------------------------------------------
\* an ingest request that was answered 400
IngestRejected(p) ==
    req[p].kind = "ingest" /\ req[p].pc = "done" /\ req[p].status = "400"

\* C16 (as claimed): an ingest request rejected as invalid input -- an empty
\* file list, or a file that is no PDF at any position of the list -- has
\* created no corpus and indexed nothing: no directory stands under an id
\* that create_corpus gave to that request.
C16_RejectedLeavesNoCorpus ==
    \A p \in Procs :
        (IngestRejected(p) /\ req[p].cid \in Uuids) =>
            ~disk[req[p].cid].exists /\ disk[req[p].cid].recs = <<>>

\* C16 holds of the empty file list: that rejection comes before
\* create_corpus and changes no directory.
C16_Aid_EmptyList ==
    [][\A p \in Procs :
         (req'[p] # req[p] /\ req[p].pc # "files" /\ req'[p].kind = "ingest"
            /\ req'[p].status = "400") => disk' = disk]_vars

=============================================================================
